---- MODULE Spec2Model ----
(***************************************************************************)
(* A model of ss-api: the REST client library src/src/ss_api/ss_api.py and *)
(* the synchronisation job src/ss_uploader.py that drives it.              *)
(*                                                                         *)
(* The program is single threaded.  Every HTTP request is one step of the  *)
(* model: the step appends the request to reqs (the wire trace), applies   *)
(* the request's effect to the remote service when the service answers 200 *)
(* and moves the issuing function on.  Library functions run on a call     *)
(* stack (the synchronisation job calls clear_sheet, which calls           *)
(* update_sheet and delete_rows).                                          *)
(*                                                                         *)
(* The remote service is the environment.  It answers 404 for a sheet or   *)
(* row it does not have, may answer 500 to any request (a fault, of which  *)
(* a run sees at most MaxFaults), and otherwise answers 200 and performs   *)
(* the request.  Deleting a row deletes the rows filed under it as well:   *)
(* that is the behaviour clear_sheet's re-parenting relies on.             *)
(***************************************************************************)
EXTENDS Integers, Sequences, FiniteSets, TLC

\* ------------------------------------------------------------------ bounds

\* Tables in the configuration file of one run.
MaxTables == 2
\* 500 answers (and import responses without the SUCCESS message) per run.
MaxFaults == 1
\* Sizes tried around each chunk boundary: 0..MaxRem items past a multiple.
MaxRem == 1
\* Row identifiers of sheet s start at s * IdStride.
IdStride == 10000
\* Rows of the local file in the largest scenario (two move chunks: 200 + 50).
ScenarioRows == 250
\* Largest batch_size a caller passes explicitly, past the default.
MaxOver == 1
\* Short sequences a caller passes: 0..MaxLen items.
MaxLen == 3
\* Chunks of the longest sequence a caller passes.
MaxChunks == 3

\* ------------------------------------------------- the program's constants

\* add_rows's default batch_size.
AddBatch == 500
\* update_sheet's default batch_size.
UpdateBatch == 100
\* delete_rows's and delete_all_rows's batch_size.
DeleteBatch == 100
\* move_rows's batch.
MoveBatch == 200

\* The status the library tests for success, and the one get_sheet tests for
\* not-found; any other status (here 500) is a service error.
OK == 200
NOT_FOUND == 404
Statuses == {200, 404, 500}
ServiceError == CHOOSE s \in Statuses : s \notin {OK, NOT_FOUND}

\* Python's None.
None == [tag |-> "None"]
\* A table's id before its sheet is created (the empty string: falsy).
NoId == 0
\* folder_id=None, and CONFIG["target_folder"].
NoFolder == "None"
TargetFolder == "target_folder"

Min(a, b) == IF a < b THEN a ELSE b

\* Mutant of Slice: seq[i + 1 : i + n] drops the first item of every chunk.
SliceDropsFirst(seq, i, n) == SubSeq(seq, i + 2, Min(i + n, Len(seq)))

\* Python's seq[i : i + n] for a 0-based i.
Slice(seq, i, n) == SubSeq(seq, i + 1, Min(i + n, Len(seq)))

\* Mutant of Rest: the filter "i > 1" for "i > 0" leaves the second row out.
RestSkipsTwo(seq) == SubSeq(seq, 3, Len(seq))

\* Python's enumerate-and-skip-the-first: seq[1:].
Rest(seq) == SubSeq(seq, 2, Len(seq))

\* Mutant of RowIds: the loop over the rows misses the last one.
RowIdsButLast(rows) == [k \in 1..(Len(rows) - 1) |-> rows[k].id]
\* The ids of a sheet's rows, in order: [row["id"] for row in sheet["rows"]].
RowIds(rows) == [k \in 1..Len(rows) |-> rows[k].id]
IdSet(rows) == { rows[k].id : k \in 1..Len(rows) }
Range(seq) == { seq[k] : k \in 1..Len(seq) }

VARIABLES
    sheets,     \* the service: sheet id -> [name, folder, rows, nextRow]
    nextId,     \* the service: the next sheet id it assigns
    files,      \* the local files: file name -> the cells of its rows
    CONFIG,     \* ss_uploader.CONFIG["tables"]: a sequence of [name, id, src]
    conf_file,  \* config.toml as persisted: the tables' ids
    main,       \* the caller of the library: [pc, k, import_sheet_id, call]
    stack,      \* the library functions in progress, innermost last
    ret,        \* the value the last library call returned
    reqs,       \* every request issued, in order, with its status
    faults,     \* 500 answers so far
    errors      \* API errors logged so far (logging.error)

vars == << sheets, nextId, files, CONFIG, conf_file, main, stack, ret, reqs, faults, errors >>

\* ------------------------------------------------------ the remote service

Row(id, parentId, cells) == [id |-> id, parentId |-> parentId, cells |-> cells]

\* The sheet the service creates from a file: one row per file row, in order.
NewSheet(id, name, folder, cells) ==
    [name |-> name, folder |-> folder,
     rows |-> [k \in 1..Len(cells) |-> Row(id * IdStride + k, 0, cells[k])],
     nextRow |-> Len(cells) + 1]

Exists(id) == id \in DOMAIN sheets

RECURSIVE WithChildren(_, _)
\* The rows in ids and every row filed (directly or not) under one of them.
WithChildren(rows, ids) ==
    LET more == ids \cup { rows[k].id : k \in { j \in 1..Len(rows) : rows[j].parentId \in ids } }
    IN  IF more = ids THEN ids ELSE WithChildren(rows, more)

\* DELETE /sheets/{id}/rows?ids=..&ignoreRowsNotFound=true
\* Ids the sheet does not hold are ignored; a deleted row takes its children.
\* Mutant of SvcDeleteRowsValid: the URL without ignoreRowsNotFound=true.
SvcDeleteRowsStrict(id, ids) == Exists(id) /\ Range(ids) \subseteq IdSet(sheets[id].rows)
SvcDeleteRowsValid(id, ids) == Exists(id)
SvcDeleteRows(id, ids) ==
    LET gone == WithChildren(sheets[id].rows, Range(ids))
        Keep(r) == r.id \notin gone
    IN  [sheets EXCEPT ![id].rows = SelectSeq(@, Keep)]

\* PUT /sheets/{id}/rows: each update names a row of the sheet and its new parent.
SvcUpdateRowsValid(id, updates) ==
    /\ Exists(id)
    /\ \A k \in 1..Len(updates) :
          /\ updates[k].id \in IdSet(sheets[id].rows)
          /\ updates[k].parentId \in IdSet(sheets[id].rows) \cup {0}
          /\ updates[k].parentId # updates[k].id
SvcUpdateRows(id, updates) ==
    LET ids == { updates[k].id : k \in 1..Len(updates) }
        \* the last update of a row wins
        ParentOf(rid) ==
            updates[CHOOSE k \in 1..Len(updates) :
                       /\ updates[k].id = rid
                       /\ \A j \in (k + 1)..Len(updates) : updates[j].id # rid].parentId
        rows == sheets[id].rows
    IN  [sheets EXCEPT ![id].rows =
            [k \in 1..Len(rows) |->
                IF rows[k].id \in ids
                THEN Row(rows[k].id, ParentOf(rows[k].id), rows[k].cells)
                ELSE rows[k]]]

\* POST /sheets/{id}/rows: the new rows go to the bottom, with fresh ids.
SvcAddRowsValid(id, specs) == Exists(id)
SvcAddRows(id, specs) ==
    LET sh == sheets[id]
    IN  [sheets EXCEPT ![id] =
            [sh EXCEPT !.rows = @ \o [k \in 1..Len(specs) |->
                                        Row(id * IdStride + sh.nextRow + k - 1, 0, specs[k].cells)],
                       !.nextRow = @ + Len(specs)]]

\* POST /sheets/{source}/rows/move: the rows leave the source for the bottom
\* of the target, in the order of the request.
SvcMoveRowsValid(source, ids, to) ==
    /\ Exists(source)
    /\ Exists(to)
    /\ source # to
    /\ Range(ids) \subseteq IdSet(sheets[source].rows)
SvcMoveRows(source, ids, to) ==
    LET src == sheets[source].rows
        idset == Range(ids)
        Stay(r) == r.id \notin idset
        RowOf(rid) == src[CHOOSE k \in 1..Len(src) : src[k].id = rid]
        moved == [k \in 1..Len(ids) |-> [RowOf(ids[k]) EXCEPT !.parentId = 0]]
    IN  [sheets EXCEPT ![source].rows = SelectSeq(@, Stay),
                       ![to].rows = @ \o moved]

\* DELETE /sheets/{id}
SvcDeleteSheetValid(id) == Exists(id)
SvcDeleteSheet(id) == [s \in DOMAIN sheets \ {id} |-> sheets[s]]

\* POST /sheets/import and /folders/{id}/sheets/import: a new sheet.
SvcImport(name, folder, file) ==
    [s \in DOMAIN sheets \cup {nextId} |->
        IF s = nextId THEN NewSheet(nextId, name, folder, files[file]) ELSE sheets[s]]

\* What the service may answer to a request: 200 when it can perform it, 404
\* when the sheet or a row is missing, and 500 while the run's faults last.
Answers(valid) ==
    { IF valid THEN OK ELSE NOT_FOUND }
        \cup (IF faults < MaxFaults THEN {ServiceError} ELSE {})

\* ------------------------------------------------------------ the library

\* A library function in progress: its name, its position, its arguments
\* and its locals (the loop index i, the responses collected).
Frame(op, pc, sheet_id, items, batch_size, other) ==
    [op |-> op, pc |-> pc, sheet_id |-> sheet_id, items |-> items, i |-> 0,
     batch_size |-> batch_size, other |-> other, responses |-> << >>]

Top == stack[Len(stack)]
Running(op, pc) == stack # << >> /\ Top.op = op /\ Top.pc = pc
Pop == SubSeq(stack, 1, Len(stack) - 1)

\* A request as sent and answered: the function that issued it, the endpoint,
\* the sheet of the URL (for an import, the sheet created), the items of the
\* body or query (for a GET, the ids of the rows answered), the target of a
\* move, the name and folder of an import, the status and the message answered.
Req(by, method, sheet, items, to, name, folder, status, message) ==
    [by |-> by, method |-> method, sheet |-> sheet, items |-> items, to |-> to,
     name |-> name, folder |-> folder, status |-> status, message |-> message]
RowsReq(by, method, sheet, items, status) ==
    Req(by, method, sheet, items, 0, << >>, NoFolder, status, "")
\* The GET get_sheet sends for the function by, and the rows answered.
GetReq(by, sheet, got, status) ==
    RowsReq(by, "GET_SHEET", sheet,
            IF got.value.tag = "None" THEN << >> ELSE RowIds(got.value.rows), status)

Sent(r) == reqs' = Append(reqs, r)
Answered(status) == faults' = IF status = ServiceError THEN faults + 1 ELSE faults
\* except APIException: logging.error(..)
Logged(failed) == errors' = IF failed THEN errors + 1 ELSE errors

\* Mutant of get_sheet: the APIException of a non-200, non-404 status is not
\* caught and reaches the caller.
get_sheet_raising(status, sheet_id) ==
    IF status = NOT_FOUND THEN [value |-> None, logged |-> FALSE]
    ELSE IF status # OK THEN [value |-> [tag |-> "None", raised |-> "APIException"],
                              logged |-> FALSE]
    ELSE [value |-> [tag |-> "sheet", id |-> sheet_id, rows |-> sheets[sheet_id].rows],
          logged |-> FALSE]

\* get_sheet's result for the status of its GET: None for a 404, None again
\* when the APIException raised for any other non-200 status is caught (and
\* logged), and the sheet's JSON for a 200.
get_sheet(status, sheet_id) ==
    IF status = NOT_FOUND THEN [value |-> None, logged |-> FALSE]
    ELSE IF status # OK THEN [value |-> None, logged |-> TRUE]
    ELSE [value |-> [tag |-> "sheet", id |-> sheet_id, rows |-> sheets[sheet_id].rows],
          logged |-> FALSE]

\* Python's "not sheet", and "not sheet['rows']".
IsNone(v) == v.tag = "None"
\* Mutant of NoRows: the rows of the sheet fetched are not looked at.
NoRowsUntested(sheet) == FALSE
NoRows(sheet) == sheet.rows = << >>

\* The function on top of the stack returns v to its caller.
Return(v) == stack' = Pop /\ ret' = v
\* One more turn of a chunk loop, or the end of it (range(0, len(items), batch_size)).
LoopOn(v) ==
    IF Top.i + Top.batch_size < Len(Top.items)
    THEN stack' = [stack EXCEPT ![Len(stack)].i = @ + Top.batch_size] /\ ret' = ret
    ELSE Return(v)

\* Mutant of AfterChunk: the status is not tested and the loop goes on.
AfterChunkGoesOn(status, v) == LoopOn(v)

\* After a chunk's request: raise APIException (caught at the end of the
\* function, which returns None) on a non-200, else go on with the loop.
AfterChunk(status, v) == IF status # OK THEN Return(None) ELSE LoopOn(v)

\* get_sheet called by a client: one GET.
GetSheet ==
    /\ Running("get_sheet", "request")
    /\ \E status \in Answers(Exists(Top.sheet_id)) :
          LET got == get_sheet(status, Top.sheet_id)
          IN  /\ Sent(GetReq("get_sheet", Top.sheet_id, got, status))
              /\ Answered(status)
              /\ Logged(got.logged)
              /\ Return(got.value)
    /\ UNCHANGED << sheets, nextId, files, CONFIG, conf_file, main >>

\* update_sheet, lines 180-184: fetch the sheet; return if absent or empty.
UpdateSheetFetch ==
    /\ Running("update_sheet", "fetch")
    /\ \E status \in Answers(Exists(Top.sheet_id)) :
          LET got == get_sheet(status, Top.sheet_id)
          IN  /\ Sent(GetReq("update_sheet", Top.sheet_id, got, status))
              /\ Answered(status)
              /\ Logged(got.logged)
              /\ IF IsNone(got.value) \/ NoRows(got.value) \/ Top.items = << >>
                 THEN Return(None)
                 ELSE stack' = [stack EXCEPT ![Len(stack)].pc = "loop"] /\ ret' = ret
    /\ UNCHANGED << sheets, nextId, files, CONFIG, conf_file, main >>

\* update_sheet, lines 194-209: PUT the next chunk; stop at the first non-200.
UpdateSheetChunk ==
    /\ Running("update_sheet", "loop")
    /\ LET json == Slice(Top.items, Top.i, Top.batch_size)
       IN  \E status \in Answers(SvcUpdateRowsValid(Top.sheet_id, json)) :
              /\ Sent(RowsReq("update_sheet", "PUT_ROWS", Top.sheet_id, json, status))
              /\ Answered(status)
              /\ sheets' = IF status = OK THEN SvcUpdateRows(Top.sheet_id, json) ELSE sheets
              /\ Logged(status # OK)
              /\ AfterChunk(status, None)
    /\ UNCHANGED << nextId, files, CONFIG, conf_file, main >>

\* add_rows, lines 259-263.
AddRowsFetch ==
    /\ Running("add_rows", "fetch")
    /\ \E status \in Answers(Exists(Top.sheet_id)) :
          LET got == get_sheet(status, Top.sheet_id)
          IN  /\ Sent(GetReq("add_rows", Top.sheet_id, got, status))
              /\ Answered(status)
              /\ Logged(got.logged)
              /\ IF IsNone(got.value) \/ NoRows(got.value) \/ Top.items = << >>
                 THEN Return(None)
                 ELSE stack' = [stack EXCEPT ![Len(stack)].pc = "loop"] /\ ret' = ret
    /\ UNCHANGED << sheets, nextId, files, CONFIG, conf_file, main >>

\* add_rows, lines 273-286.
AddRowsChunk ==
    /\ Running("add_rows", "loop")
    /\ LET json == Slice(Top.items, Top.i, Top.batch_size)
       IN  \E status \in Answers(SvcAddRowsValid(Top.sheet_id, json)) :
              /\ Sent(RowsReq("add_rows", "POST_ROWS", Top.sheet_id, json, status))
              /\ Answered(status)
              /\ sheets' = IF status = OK THEN SvcAddRows(Top.sheet_id, json) ELSE sheets
              /\ Logged(status # OK)
              /\ AfterChunk(status, None)
    /\ UNCHANGED << nextId, files, CONFIG, conf_file, main >>

\* delete_rows called with no rows: the loop body never runs, return [].
DeleteRowsNone ==
    /\ Running("delete_rows", "loop")
    /\ Top.items = << >>
    /\ Return([tag |-> "responses", responses |-> << >>])
    /\ UNCHANGED << sheets, nextId, files, CONFIG, conf_file, main, reqs, faults, errors >>

\* Mutant of DeleteRowsChunk: after a failed chunk the responses collected
\* so far are returned.
DeleteRowsChunkReturnsPartial ==
    /\ Running("delete_rows", "loop")
    /\ Top.items # << >>
    /\ LET batch == Slice(Top.items, Top.i, Top.batch_size)
       IN  \E status \in Answers(SvcDeleteRowsValid(Top.sheet_id, batch)) :
              LET responses == Append(Top.responses, status)
              IN  /\ Sent(RowsReq("delete_rows", "DELETE_ROWS", Top.sheet_id, batch, status))
                  /\ Answered(status)
                  /\ sheets' = IF status = OK THEN SvcDeleteRows(Top.sheet_id, batch) ELSE sheets
                  /\ Logged(status # OK)
                  /\ IF status = OK /\ Top.i + Top.batch_size < Len(Top.items)
                     THEN /\ stack' = [stack EXCEPT ![Len(stack)].i = @ + Top.batch_size,
                                                    ![Len(stack)].responses = responses]
                          /\ ret' = ret
                     ELSE Return([tag |-> "responses", responses |-> responses])
    /\ UNCHANGED << nextId, files, CONFIG, conf_file, main >>

\* delete_rows, lines 297-317: DELETE the next chunk of ids, keep the
\* response, stop at the first non-200 and return None.
DeleteRowsChunk ==
    /\ Running("delete_rows", "loop")
    /\ Top.items # << >>
    /\ LET batch == Slice(Top.items, Top.i, Top.batch_size)
       IN  \E status \in Answers(SvcDeleteRowsValid(Top.sheet_id, batch)) :
              LET responses == Append(Top.responses, status)
              IN  /\ Sent(RowsReq("delete_rows", "DELETE_ROWS", Top.sheet_id, batch, status))
                  /\ Answered(status)
                  /\ sheets' = IF status = OK THEN SvcDeleteRows(Top.sheet_id, batch) ELSE sheets
                  /\ Logged(status # OK)
                  /\ IF status # OK THEN Return(None)
                     ELSE IF Top.i + Top.batch_size < Len(Top.items)
                     THEN /\ stack' = [stack EXCEPT ![Len(stack)].i = @ + Top.batch_size,
                                                    ![Len(stack)].responses = responses]
                          /\ ret' = ret
                     ELSE Return([tag |-> "responses", responses |-> responses])
    /\ UNCHANGED << nextId, files, CONFIG, conf_file, main >>

\* Mutant of DeleteAllRowsFetch: the batch size of move_rows for that of
\* delete_rows.
DeleteAllRowsFetchWide ==
    /\ Running("delete_all_rows", "fetch")
    /\ \E status \in Answers(Exists(Top.sheet_id)) :
          LET got == get_sheet(status, Top.sheet_id)
          IN  /\ Sent(GetReq("delete_all_rows", Top.sheet_id, got, status))
              /\ Answered(status)
              /\ Logged(got.logged)
              /\ IF IsNone(got.value) \/ NoRows(got.value)
                 THEN Return(None)
                 ELSE /\ stack' = [stack EXCEPT ![Len(stack)].pc = "loop",
                                                ![Len(stack)].batch_size = MoveBatch,
                                                ![Len(stack)].items = RowIds(got.value.rows)]
                      /\ ret' = ret
    /\ UNCHANGED << sheets, nextId, files, CONFIG, conf_file, main >>

\* delete_all_rows, lines 321-335: fetch the sheet, collect its row ids.
DeleteAllRowsFetch ==
    /\ Running("delete_all_rows", "fetch")
    /\ \E status \in Answers(Exists(Top.sheet_id)) :
          LET got == get_sheet(status, Top.sheet_id)
          IN  /\ Sent(GetReq("delete_all_rows", Top.sheet_id, got, status))
              /\ Answered(status)
              /\ Logged(got.logged)
              /\ IF IsNone(got.value) \/ NoRows(got.value)
                 THEN Return(None)
                 ELSE /\ stack' = [stack EXCEPT ![Len(stack)].pc = "loop",
                                                ![Len(stack)].items = RowIds(got.value.rows)]
                      /\ ret' = ret
    /\ UNCHANGED << sheets, nextId, files, CONFIG, conf_file, main >>

\* delete_all_rows, lines 341-361.
DeleteAllRowsChunk ==
    /\ Running("delete_all_rows", "loop")
    /\ LET batch == Slice(Top.items, Top.i, Top.batch_size)
       IN  \E status \in Answers(SvcDeleteRowsValid(Top.sheet_id, batch)) :
              /\ Sent(RowsReq("delete_all_rows", "DELETE_ROWS", Top.sheet_id, batch, status))
              /\ Answered(status)
              /\ sheets' = IF status = OK THEN SvcDeleteRows(Top.sheet_id, batch) ELSE sheets
              /\ Logged(status # OK)
              /\ AfterChunk(status, None)
    /\ UNCHANGED << nextId, files, CONFIG, conf_file, main >>

\* move_rows, lines 221-228: fetch the source sheet, collect its row ids.
\* Top.sheet_id is the target, Top.other the source.
MoveRowsFetch ==
    /\ Running("move_rows", "fetch")
    /\ \E status \in Answers(Exists(Top.other)) :
          LET got == get_sheet(status, Top.other)
          IN  /\ Sent(GetReq("move_rows", Top.other, got, status))
              /\ Answered(status)
              /\ Logged(got.logged)
              /\ IF IsNone(got.value) \/ NoRows(got.value)
                 THEN Return(None)
                 ELSE /\ stack' = [stack EXCEPT ![Len(stack)].pc = "loop",
                                                ![Len(stack)].items = RowIds(got.value.rows)]
                      /\ ret' = ret
    /\ UNCHANGED << sheets, nextId, files, CONFIG, conf_file, main >>

\* move_rows, lines 238-255: POST the next chunk of row ids to the target.
MoveRowsChunk ==
    /\ Running("move_rows", "loop")
    /\ LET rowIds == Slice(Top.items, Top.i, Top.batch_size)
       IN  \E status \in Answers(SvcMoveRowsValid(Top.other, rowIds, Top.sheet_id)) :
              /\ Sent(Req("move_rows", "MOVE_ROWS", Top.other, rowIds, Top.sheet_id,
                          << >>, NoFolder, status, ""))
              /\ Answered(status)
              /\ sheets' = IF status = OK THEN SvcMoveRows(Top.other, rowIds, Top.sheet_id)
                           ELSE sheets
              /\ Logged(status # OK)
              /\ AfterChunk(status, None)
    /\ UNCHANGED << nextId, files, CONFIG, conf_file, main >>

\* delete_sheet, lines 364-385: one DELETE; the response's JSON or None.
DeleteSheet ==
    /\ Running("delete_sheet", "request")
    /\ \E status \in Answers(SvcDeleteSheetValid(Top.sheet_id)) :
          /\ Sent(RowsReq("delete_sheet", "DELETE_SHEET", Top.sheet_id, << >>, status))
          /\ Answered(status)
          /\ sheets' = IF status = OK THEN SvcDeleteSheet(Top.sheet_id) ELSE sheets
          /\ Logged(status # OK)
          /\ Return(IF status # OK THEN None ELSE [tag |-> "json", message |-> "SUCCESS"])
    /\ UNCHANGED << nextId, files, CONFIG, conf_file, main >>

\* Mutant of Exit: "return" for "exit()".
ExitReturns == Return(None) /\ main' = main

\* sys.exit(): SystemExit is no APIException and nothing catches it; the
\* process ends where it stands (the configuration is not written back).
Exit == stack' = << >> /\ main' = [main EXCEPT !.pc = "exited"] /\ ret' = ret

\* clear_sheet, lines 389-404: fetch the sheet; exit() if absent, return if
\* it has no rows; else re-parent every row but the first under the first
\* (update_sheet with its default batch_size).
ClearSheetFetch ==
    /\ Running("clear_sheet", "fetch")
    /\ \E status \in Answers(Exists(Top.sheet_id)) :
          LET got == get_sheet(status, Top.sheet_id)
              sheet == got.value
              first_row_id == sheet.rows[1].id
              others == Rest(sheet.rows)
              data == [k \in 1..Len(others) |->
                         [id |-> others[k].id, parentId |-> first_row_id]]
          IN  /\ Sent(GetReq("clear_sheet", Top.sheet_id, got, status))
              /\ Answered(status)
              /\ Logged(got.logged)
              /\ IF IsNone(sheet) THEN Exit
                 ELSE IF NoRows(sheet) THEN Return(None) /\ main' = main
                 ELSE /\ stack' = Append([stack EXCEPT ![Len(stack)].pc = "update_sheet",
                                                       ![Len(stack)].other = first_row_id],
                                         Frame("update_sheet", "fetch", Top.sheet_id, data,
                                               UpdateBatch, 0))
                      /\ ret' = ret
                      /\ main' = main
    /\ UNCHANGED << sheets, nextId, files, CONFIG, conf_file >>

\* Mutant of ClearSheetDelete: the first row is not deleted.
ClearSheetKeepsFirst ==
    /\ Running("clear_sheet", "update_sheet")
    /\ stack' = [stack EXCEPT ![Len(stack)].pc = "delete_rows"]
    /\ UNCHANGED << sheets, nextId, files, CONFIG, conf_file, main, ret, reqs, faults, errors >>

\* Mutant of ClearSheetDelete: the first row is deleted only when update_sheet
\* logged no error.
ClearSheetDeleteUnlessError ==
    /\ Running("clear_sheet", "update_sheet")
    /\ stack' = IF errors > 0
                THEN [stack EXCEPT ![Len(stack)].pc = "delete_rows"]
                ELSE Append([stack EXCEPT ![Len(stack)].pc = "delete_rows"],
                            Frame("delete_rows", "loop", Top.sheet_id, << Top.other >>,
                                  DeleteBatch, 0))
    /\ UNCHANGED << sheets, nextId, files, CONFIG, conf_file, main, ret, reqs, faults, errors >>

\* clear_sheet, line 405: update_sheet has returned; delete the first row.
ClearSheetDelete ==
    /\ Running("clear_sheet", "update_sheet")
    /\ stack' = Append([stack EXCEPT ![Len(stack)].pc = "delete_rows"],
                       Frame("delete_rows", "loop", Top.sheet_id, << Top.other >>,
                             DeleteBatch, 0))
    /\ UNCHANGED << sheets, nextId, files, CONFIG, conf_file, main, ret, reqs, faults, errors >>

\* clear_sheet: delete_rows has returned; so does clear_sheet.
ClearSheetReturn ==
    /\ Running("clear_sheet", "delete_rows")
    /\ Return(None)
    /\ UNCHANGED << sheets, nextId, files, CONFIG, conf_file, main, reqs, faults, errors >>

ImportFrame(sheet_name, filepath, folder_id) ==
    [op |-> "import_xlsx_sheet", pc |-> "request", sheet_name |-> sheet_name,
     filepath |-> filepath, folder_id |-> folder_id]

\* The JSON bodies the service may send with a 200 to an import: the
\* SUCCESS message or, as a fault, another message or none.
ImportBodies ==
    { [hasMessage |-> TRUE, message |-> "SUCCESS"] }
        \cup (IF faults < MaxFaults
              THEN { [hasMessage |-> TRUE, message |-> "ERROR"],
                     [hasMessage |-> FALSE, message |-> ""] }
              ELSE {})

\* import_xlsx_sheet, lines 414-440: POST the file to the folder's import
\* endpoint, or to the default one without a folder; the JSON or None.
ImportXlsxSheet ==
    /\ Running("import_xlsx_sheet", "request")
    /\ \E status \in Answers(TRUE) :
          /\ Logged(status # OK)
          /\ IF status # OK
             THEN /\ Sent(Req("import_xlsx_sheet", "IMPORT", 0, << >>, 0, Top.sheet_name,
                              Top.folder_id, status, ""))
                  /\ Answered(status)
                  /\ Return(None)
                  /\ UNCHANGED << sheets, nextId >>
             ELSE \E body \in ImportBodies :
                  /\ Sent(Req("import_xlsx_sheet", "IMPORT", nextId, << >>, 0, Top.sheet_name,
                              Top.folder_id, status, body.message))
                  /\ faults' = IF body.message = "SUCCESS" THEN faults ELSE faults + 1
                  /\ sheets' = SvcImport(Top.sheet_name, Top.folder_id, Top.filepath)
                  /\ nextId' = nextId + 1
                  /\ Return([tag |-> "json", hasMessage |-> body.hasMessage,
                             message |-> body.message, id |-> nextId])
    /\ UNCHANGED << files, CONFIG, conf_file, main >>

\* ------------------------------------------- ss_uploader.py: set_sheet

Idle(pc) == stack = << >> /\ main.pc = pc
Call(frame, pc) == stack' = << frame >> /\ main' = [main EXCEPT !.pc = pc]
NextTable == main' = [main EXCEPT !.pc = "loop", !.k = @ + 1]

\* Lines 57-63: a table without a sheet id: import its file into the target
\* folder under the table's name.
SetSheetNewTable ==
    /\ Idle("loop")
    /\ main.k <= Len(CONFIG)
    /\ CONFIG[main.k].id = NoId
    /\ Call(ImportFrame(<< "", CONFIG[main.k].name >>, CONFIG[main.k].src, TargetFolder),
            "new_import")
    /\ UNCHANGED << sheets, nextId, files, CONFIG, conf_file, ret, reqs, faults, errors >>

\* Mutant of SetSheetNewResult: the new id is not written to CONFIG.
SetSheetNewResultForgets ==
    /\ Idle("new_import")
    /\ NextTable
    /\ UNCHANGED << sheets, nextId, files, CONFIG, conf_file, stack, ret, reqs, faults, errors >>

\* Lines 64-67: record the new sheet's id when the import returned a result.
SetSheetNewResult ==
    /\ Idle("new_import")
    /\ CONFIG' = IF IsNone(ret) THEN CONFIG ELSE [CONFIG EXCEPT ![main.k].id = ret.id]
    /\ NextTable
    /\ UNCHANGED << sheets, nextId, files, conf_file, stack, ret, reqs, faults, errors >>

\* Lines 69-71: a table with a sheet id: import its file as TMP_<name>.
SetSheetTmpImport ==
    /\ Idle("loop")
    /\ main.k <= Len(CONFIG)
    /\ CONFIG[main.k].id # NoId
    /\ Call(ImportFrame(<< "TMP_", CONFIG[main.k].name >>, CONFIG[main.k].src, NoFolder),
            "tmp_import")
    /\ UNCHANGED << sheets, nextId, files, CONFIG, conf_file, ret, reqs, faults, errors >>

\* Mutant of Rejected: the message is never looked at.
RejectedNever(result) == FALSE

\* Line 75: the import's result carries a message other than SUCCESS.
Rejected(result) == result.hasMessage /\ result.message # "SUCCESS"

\* Mutant of SetSheetTmpResult: "return" for "continue" when the import
\* returned no result.
SetSheetTmpResultHalts ==
    /\ Idle("tmp_import")
    /\ IF IsNone(ret) \/ Rejected(ret)
       THEN main' = [main EXCEPT !.pc = "returned"] /\ stack' = stack
       ELSE IF ret.id = NoId \/ CONFIG[main.k].id = NoId THEN NextTable /\ stack' = stack
       ELSE /\ stack' = << Frame("clear_sheet", "fetch", CONFIG[main.k].id, << >>, 0, 0) >>
            /\ main' = [main EXCEPT !.pc = "clear_sheet", !.import_sheet_id = ret.id]
    /\ UNCHANGED << sheets, nextId, files, CONFIG, conf_file, ret, reqs, faults, errors >>

\* Lines 72-85: no result: next table; a message other than SUCCESS: return
\* from set_sheet; else clear the target sheet.
SetSheetTmpResult ==
    /\ Idle("tmp_import")
    /\ IF IsNone(ret) THEN NextTable /\ stack' = stack
       ELSE IF Rejected(ret)
       THEN main' = [main EXCEPT !.pc = "returned"] /\ stack' = stack
       ELSE IF ret.id = NoId \/ CONFIG[main.k].id = NoId THEN NextTable /\ stack' = stack
       ELSE /\ stack' = << Frame("clear_sheet", "fetch", CONFIG[main.k].id, << >>, 0, 0) >>
            /\ main' = [main EXCEPT !.pc = "clear_sheet", !.import_sheet_id = ret.id]
    /\ UNCHANGED << sheets, nextId, files, CONFIG, conf_file, ret, reqs, faults, errors >>

\* Mutant of SetSheetMoveRows: the temporary sheet is deleted without its
\* rows having been moved.
SetSheetSkipsMove ==
    /\ Idle("clear_sheet")
    /\ Call(Frame("delete_sheet", "request", main.import_sheet_id, << >>, 0, 0),
            "delete_sheet")
    /\ UNCHANGED << sheets, nextId, files, CONFIG, conf_file, ret, reqs, faults, errors >>

\* Line 86: clear_sheet has returned; move the temporary sheet's rows.
SetSheetMoveRows ==
    /\ Idle("clear_sheet")
    /\ Call(Frame("move_rows", "fetch", CONFIG[main.k].id, << >>, MoveBatch,
                  main.import_sheet_id), "move_rows")
    /\ UNCHANGED << sheets, nextId, files, CONFIG, conf_file, ret, reqs, faults, errors >>

\* Mutant of SetSheetDeleteSheet: the temporary sheet is kept when the run
\* has logged an error.
SetSheetKeepsTmpOnError ==
    /\ Idle("move_rows")
    /\ IF errors > 0
       THEN main' = [main EXCEPT !.pc = "delete_sheet"] /\ stack' = stack
       ELSE Call(Frame("delete_sheet", "request", main.import_sheet_id, << >>, 0, 0),
                 "delete_sheet")
    /\ UNCHANGED << sheets, nextId, files, CONFIG, conf_file, ret, reqs, faults, errors >>

\* Line 87: move_rows has returned; delete the temporary sheet.
SetSheetDeleteSheet ==
    /\ Idle("move_rows")
    /\ Call(Frame("delete_sheet", "request", main.import_sheet_id, << >>, 0, 0),
            "delete_sheet")
    /\ UNCHANGED << sheets, nextId, files, CONFIG, conf_file, ret, reqs, faults, errors >>

\* Line 88: the table is done.
SetSheetTableDone ==
    /\ Idle("delete_sheet")
    /\ NextTable
    /\ UNCHANGED << sheets, nextId, files, CONFIG, conf_file, stack, ret, reqs, faults, errors >>

\* The loop over CONFIG["tables"] ends.
SetSheetReturn ==
    /\ Idle("loop")
    /\ main.k > Len(CONFIG)
    /\ main' = [main EXCEPT !.pc = "returned"]
    /\ UNCHANGED << sheets, nextId, files, CONFIG, conf_file, stack, ret, reqs, faults, errors >>

\* __main__, lines 112-114: set_sheet has returned; write CONFIG back.
Persist ==
    /\ Idle("returned")
    /\ conf_file' = [t \in 1..Len(CONFIG) |-> CONFIG[t].id]
    /\ main' = [main EXCEPT !.pc = "done"]
    /\ UNCHANGED << sheets, nextId, files, CONFIG, stack, ret, reqs, faults, errors >>

\* ------------------------------------------------------------- the run

\* Sizes around the chunk boundaries of a batch: q full chunks and r more.
Sizes(batch) == { q * batch + r : q \in 0..1, r \in 0..MaxRem }

\* The rows m of every target sheet before the run and the rows n of every
\* local file.  clear_sheet reads only the target and move_rows only the
\* temporary sheet, so the two sizes are varied together: both small, both
\* around their chunk boundary (clear_sheet updates all rows but one), and a
\* small target with the largest file.
Scenarios ==
    { [m |-> r, n |-> r] : r \in 0..MaxRem }
        \cup { [m |-> 1 + UpdateBatch + r, n |-> MoveBatch + r] : r \in 0..MaxRem }
        \cup { [m |-> 1 + MaxRem, n |-> ScenarioRows] }

\* A table has no sheet yet, or has one.
Kinds == {"new", "existing"}

FileCells(t, n) == [k \in 1..n |-> t * IdStride + k]
OldCells(m) == [k \in 1..m |-> 0 - k]

\* config.toml as loaded, the service's sheets, the local files.
Init ==
    \E L \in 1..MaxTables, sc \in Scenarios :
    \E kinds \in [1..L -> Kinds] :
        /\ CONFIG = [t \in 1..L |->
                       [name |-> t, id |-> IF kinds[t] = "new" THEN NoId ELSE t, src |-> t]]
        /\ conf_file = [t \in 1..L |-> IF kinds[t] = "new" THEN NoId ELSE t]
        /\ files = [t \in 1..L |-> FileCells(t, sc.n)]
        /\ sheets = [t \in { u \in 1..L : kinds[u] = "existing" } |->
                       NewSheet(t, << "", t >>, TargetFolder, OldCells(sc.m))]
        /\ nextId = L + 1
        /\ main = [pc |-> "loop", k |-> 1, import_sheet_id |-> NoId, call |-> None]
        /\ stack = << >>
        /\ ret = None
        /\ reqs = << >>
        /\ faults = 0
        /\ errors = 0

Next ==
    \/ SetSheetNewTable
    \/ SetSheetNewResult
    \/ SetSheetTmpImport
    \/ SetSheetTmpResult
    \/ SetSheetMoveRows
    \/ SetSheetDeleteSheet
    \/ SetSheetTableDone
    \/ SetSheetReturn
    \/ Persist
    \/ ImportXlsxSheet
    \/ ClearSheetFetch
    \/ ClearSheetDelete
    \/ ClearSheetReturn
    \/ UpdateSheetFetch
    \/ UpdateSheetChunk
    \/ DeleteRowsChunk
    \/ MoveRowsFetch
    \/ MoveRowsChunk
    \/ DeleteSheet

Spec == Init /\ [][Next]_vars

\* ------------------------------------- the library called by a client

\* Sheet ApiSheet holds m rows, the sheets OtherSheet and ThirdSheet MaxRem
\* rows; no sheet has the id MissingSheet.
ApiSheet == 1
OtherSheet == 2
MissingSheet == 3
ThirdSheet == 4
ApiSheetIds == {ApiSheet, MissingSheet}

ApiSizes == (0..MaxLen) \cup Sizes(UpdateBatch) \cup Sizes(MoveBatch)
\* The batch_size a caller may pass: small ones, the default, and more than it.
BatchSizes(default) == (1..(1 + MaxRem)) \cup (default..(default + MaxOver))
\* The lengths of the sequences a caller passes with a batch_size: short
\* ones and those around the default's chunk boundary, of at most MaxChunks
\* chunks.
Lengths(default, b) ==
    { n \in (0..MaxLen) \cup Sizes(default) : n <= MaxChunks * b }

\* The arguments a client passes: row specifications to add, updates of the
\* first n rows of a sheet, the ids of the first n rows a sheet had at first.
NewRows(n) == [k \in 1..n |-> [cells |-> k]]
Updates(sheet_id, n) == [k \in 1..n |-> [id |-> sheet_id * IdStride + k, parentId |-> 0]]
FirstIds(sheet_id, n) == [k \in 1..n |-> sheet_id * IdStride + k]

InitApi ==
    \E m \in ApiSizes :
        /\ CONFIG = << >>
        /\ conf_file = << >>
        /\ files = [t \in {1} |-> FileCells(1, MaxRem)]
        /\ sheets = [t \in {ApiSheet, OtherSheet, ThirdSheet} |->
                       IF t = ApiSheet
                       THEN NewSheet(t, << "", t >>, TargetFolder, OldCells(m))
                       ELSE NewSheet(t, << "", t >>, TargetFolder, OldCells(MaxRem))]
        /\ nextId = ThirdSheet + 1
        /\ main = [pc |-> "client", k |-> 0, import_sheet_id |-> NoId, call |-> None]
        /\ stack = << >>
        /\ ret = None
        /\ reqs = << >>
        /\ faults = 0
        /\ errors = 0

\* The client calls a library function and keeps what it passed.
ClientCall(frame) ==
    stack' = << frame >> /\ main' = [main EXCEPT !.pc = "called", !.call = frame]

ClientUnchanged == UNCHANGED << sheets, nextId, files, CONFIG, conf_file, ret, reqs, faults, errors >>

CallGetSheet ==
    /\ Idle("client")
    /\ \E sid \in ApiSheetIds :
          ClientCall(Frame("get_sheet", "request", sid, << >>, 0, 0))
    /\ ClientUnchanged

CallAddRows ==
    /\ Idle("client")
    /\ \E sid \in ApiSheetIds, b \in BatchSizes(AddBatch) : \E n \in Lengths(AddBatch, b) :
          ClientCall(Frame("add_rows", "fetch", sid, NewRows(n), b, 0))
    /\ ClientUnchanged

CallUpdateSheet ==
    /\ Idle("client")
    /\ \E sid \in ApiSheetIds, b \in BatchSizes(UpdateBatch) : \E n \in Lengths(UpdateBatch, b) :
          ClientCall(Frame("update_sheet", "fetch", sid, Updates(ApiSheet, n), b, 0))
    /\ ClientUnchanged

CallDeleteRows ==
    /\ Idle("client")
    /\ \E sid \in ApiSheetIds, n \in Lengths(DeleteBatch, DeleteBatch) :
          ClientCall(Frame("delete_rows", "loop", sid, FirstIds(ApiSheet, n), DeleteBatch, 0))
    /\ ClientUnchanged

CallDeleteAllRows ==
    /\ Idle("client")
    /\ \E sid \in ApiSheetIds :
          ClientCall(Frame("delete_all_rows", "fetch", sid, << >>, DeleteBatch, 0))
    /\ ClientUnchanged

CallMoveRows ==
    /\ Idle("client")
    /\ \E source \in ApiSheetIds, target \in {OtherSheet, MissingSheet} :
          ClientCall(Frame("move_rows", "fetch", target, << >>, MoveBatch, source))
    /\ ClientUnchanged

CallClearSheet ==
    /\ Idle("client")
    /\ \E sid \in ApiSheetIds :
          ClientCall(Frame("clear_sheet", "fetch", sid, << >>, 0, 0))
    /\ ClientUnchanged

CallDeleteSheet ==
    /\ Idle("client")
    /\ \E sid \in ApiSheetIds :
          ClientCall(Frame("delete_sheet", "request", sid, << >>, 0, 0))
    /\ ClientUnchanged

CallImportXlsxSheet ==
    /\ Idle("client")
    /\ \E folder \in {NoFolder, TargetFolder} :
          ClientCall(ImportFrame(<< "", 1 >>, 1, folder))
    /\ ClientUnchanged

\* delete_rows has returned; the client calls it once more with the same ids.
CallDeleteRowsAgain ==
    /\ Idle("called")
    /\ main.call.op = "delete_rows"
    /\ stack' = << main.call >>
    /\ main' = [main EXCEPT !.pc = "called_again"]
    /\ ClientUnchanged

\* The library function has returned to the client.
ClientReturn ==
    /\ stack = << >>
    /\ main.pc \in {"called", "called_again"}
    /\ main' = [main EXCEPT !.pc = "done"]
    /\ UNCHANGED << sheets, nextId, files, CONFIG, conf_file, stack, ret, reqs, faults, errors >>

NextApi ==
    \/ CallGetSheet
    \/ CallAddRows
    \/ CallUpdateSheet
    \/ CallDeleteRows
    \/ CallDeleteAllRows
    \/ CallMoveRows
    \/ CallClearSheet
    \/ CallDeleteSheet
    \/ CallImportXlsxSheet
    \/ CallDeleteRowsAgain
    \/ ClientReturn
    \/ GetSheet
    \/ AddRowsFetch
    \/ AddRowsChunk
    \/ UpdateSheetFetch
    \/ UpdateSheetChunk
    \/ DeleteRowsNone
    \/ DeleteRowsChunk
    \/ DeleteAllRowsFetch
    \/ DeleteAllRowsChunk
    \/ MoveRowsFetch
    \/ MoveRowsChunk
    \/ ClearSheetFetch
    \/ ClearSheetDelete
    \/ ClearSheetReturn
    \/ DeleteSheet
    \/ ImportXlsxSheet

SpecApi == InitApi /\ [][NextApi]_vars

\* ------------------------------------------------------------ the claims

Last(seq) == seq[Len(seq)]
Ceil(n, b) == (n + b - 1) \div b
Cells(rows) == [k \in 1..Len(rows) |-> rows[k].cells]
RECURSIVE Concat(_)
\* The items of a sequence of requests, one after the other.
Concat(rs) == IF rs = << >> THEN << >> ELSE Head(rs).items \o Concat(Tail(rs))

\* Every request so far was answered 200, and every import with SUCCESS.
AllOk == faults = 0 /\ \A k \in 1..Len(reqs) : reqs[k].status = OK

\* The requests of one function and endpoint, in order.
Issued(by, method) ==
    LET Is(r) == r.by = by /\ r.method = method IN SelectSeq(reqs, Is)

\* Table t went through the whole replacement workflow: its temporary sheet
\* was imported and set_sheet has come back from delete_sheet for it.
TmpImported(t) ==
    \E k \in 1..Len(reqs) : reqs[k].method = "IMPORT" /\ reqs[k].name = << "TMP_", t >>
Replaced(t) ==
    /\ t \in 1..Len(CONFIG)
    /\ TmpImported(t)
    /\ t < main.k \/ (t = main.k /\ Idle("delete_sheet"))

\* C1: once the replacement workflow has completed for a table with a sheet
\* id and every request succeeded, the target sheet holds exactly the rows of
\* the imported file, in the file's order, none of its former rows, and no
\* sheet named TMP_<name> exists.
C1_ReplacementReplaces ==
    \A t \in 1..Len(CONFIG) :
        (Replaced(t) /\ AllOk) =>
            /\ Exists(CONFIG[t].id)
            /\ Cells(sheets[CONFIG[t].id].rows) = files[CONFIG[t].src]
            /\ \A s \in DOMAIN sheets : sheets[s].name # << "TMP_", t >>

\* A target of several rows was cleared with an update and refilled from a
\* file of more than one move chunk.
C1_Witness ==
    \E t \in 1..Len(CONFIG) :
        /\ Replaced(t) /\ AllOk
        /\ Len(files[CONFIG[t].src]) > MoveBatch
        /\ \E k \in 1..Len(reqs) :
              reqs[k].method = "PUT_ROWS" /\ reqs[k].sheet = CONFIG[t].id

\* ---- claims about one library call (SpecApi)

\* The library function the client called has returned.
Returned(op) == Idle("called") /\ main.call.op = op
\* The function the client called, running or returned.
Called(op) == main.pc = "called" /\ main.call.op = op

\* The mutation endpoint of each batched function.
Mutation(op) ==
    CASE op = "add_rows" -> "POST_ROWS"
      [] op = "update_sheet" -> "PUT_ROWS"
      [] op = "delete_rows" -> "DELETE_ROWS"
      [] op = "delete_all_rows" -> "DELETE_ROWS"
      [] op = "move_rows" -> "MOVE_ROWS"
Batched == {"add_rows", "update_sheet", "delete_rows", "delete_all_rows", "move_rows"}

\* The sequence a batched call partitions: the rows, updates or ids passed,
\* and for delete_all_rows and move_rows the ids of the rows its GET answered.
Fetched(op) == Issued(op, "GET_SHEET")
Input(op) ==
    IF op \in {"delete_all_rows", "move_rows"}
    THEN (IF Fetched(op) = << >> THEN << >> ELSE Fetched(op)[1].items)
    ELSE main.call.items

\* C2: when add_rows, update_sheet, delete_rows or move_rows has returned and
\* every request succeeded (for add_rows and update_sheet: the sheet fetched
\* had a row), it has issued exactly ceil(|S|/b) mutation requests, each of at
\* most b items, whose items in order of issue are S.
C2_ChunksPartitionInput ==
    \A op \in {"add_rows", "update_sheet", "delete_rows", "move_rows"} :
        (/\ Returned(op)
         /\ AllOk
         /\ op \in {"add_rows", "update_sheet"} => Fetched(op)[1].items # << >>)
        => LET sent == Issued(op, Mutation(op))
               b == main.call.batch_size
           IN  /\ Len(sent) = Ceil(Len(Input(op)), b)
               /\ \A k \in 1..Len(sent) : Len(sent[k].items) <= b
               /\ Concat(sent) = Input(op)

\* update_sheet has sent its updates in several chunks, the last one short.
C2_Witness ==
    /\ Returned("update_sheet")
    /\ AllOk
    /\ Len(Issued("update_sheet", "PUT_ROWS")) >= 2
    /\ Len(Last(Issued("update_sheet", "PUT_ROWS")).items) < main.call.batch_size
    /\ main.call.batch_size > 1

\* The service's cap on the items of one request, per endpoint.
Cap(method) ==
    CASE method = "POST_ROWS" -> 500
      [] method = "PUT_ROWS" -> 100
      [] method = "DELETE_ROWS" -> 100
      [] method = "MOVE_ROWS" -> 200

\* C3 (as claimed): no request of add_rows, update_sheet, delete_rows,
\* delete_all_rows or move_rows carries more items than the service's cap for
\* its endpoint, whatever batch_size the caller passes.
C3_RequestsWithinCap ==
    \A k \in 1..Len(reqs) :
        (reqs[k].by \in Batched /\ reqs[k].method = Mutation(reqs[k].by))
        => Len(reqs[k].items) <= Cap(reqs[k].method)

\* C4: the mutation requests of a batched call are the chunks of its input
\* in order, one request per chunk, and a request answered with a non-200
\* status is the last one the call issues (no re-send, no later chunk).
C4_StopsAtFirstFailure ==
    \A op \in Batched :
        Called(op) =>
            LET sent == Issued(op, Mutation(op))
                b == main.call.batch_size
            IN  /\ \A k \in 1..Len(sent) :
                      /\ sent[k].items = Slice(Input(op), (k - 1) * b, b)
                      /\ sent[k].status # OK => k = Len(sent)
                /\ \A k \in 1..Len(reqs) :
                      (reqs[k].by = op /\ reqs[k].status # OK) => k = Len(reqs)

\* A batched call has returned after its second chunk failed, with chunks
\* left to send.
C4_Witness ==
    \E op \in Batched :
        /\ Returned(op)
        /\ Len(Issued(op, Mutation(op))) = 2
        /\ Last(reqs).status # OK
        /\ Last(reqs).method = Mutation(op)
        /\ 2 * main.call.batch_size < Len(Input(op))

\* C5 (as claimed): get_sheet's caller can tell a 404 from a 500: after a
\* 404 it observes None, after a 500 something else (a failure).
C5_FailureDistinctFromAbsent ==
    (Returned("get_sheet") /\ Last(reqs).status \notin {OK, NOT_FOUND}) => ret # None

\* C5 (amended): get_sheet returns None both for a 404 and for any other
\* non-200 status; the two differ only in the error logged for the latter.
\* For a 200 it returns the sheet.
C5_AbsentAndFailureBothNone ==
    Returned("get_sheet") =>
        /\ Len(reqs) = 1
        /\ Last(reqs).status = NOT_FOUND => (ret = None /\ errors = 0)
        /\ Last(reqs).status \notin {OK, NOT_FOUND} => (ret = None /\ errors = 1)
        /\ Last(reqs).status = OK =>
              (ret.tag = "sheet" /\ ret.rows = sheets[main.call.sheet_id].rows /\ errors = 0)

\* get_sheet has returned after a 500.
C5_Witness == Returned("get_sheet") /\ Last(reqs).status = ServiceError

\* C6 (as claimed): clear_sheet on a sheet of n >= 1 rows, every request
\* succeeding, never leaves the sheet with less than one row and returns
\* with exactly one row left.
C6_ClearLeavesOneRow ==
    (/\ Called("clear_sheet")
     /\ AllOk
     /\ reqs # << >>
     /\ reqs[1].items # << >>)
    => /\ Len(sheets[main.call.sheet_id].rows) >= 1
       /\ Idle("called") => Len(sheets[main.call.sheet_id].rows) = 1

\* C7 (as claimed): no delete request of clear_sheet (through delete_rows) or
\* of delete_all_rows names every row the sheet holds when it is sent.
C7_DeleteSparesARow ==
    [][ \A r \in (IF Len(reqs') > Len(reqs) THEN { Last(reqs') } ELSE {}) :
          (/\ r.method = "DELETE_ROWS"
           /\ r.by = "delete_all_rows" \/ (Len(stack) >= 2 /\ stack[Len(stack) - 1].op = "clear_sheet")
           /\ Exists(r.sheet)
           /\ sheets[r.sheet].rows # << >>)
          => ~ (IdSet(sheets[r.sheet].rows) \subseteq Range(r.items)) ]_vars

\* ---- claims about a run of set_sheet (Spec)

\* The places in reqs of the requests that satisfy a test.
ImportsOf(t) ==
    { k \in 1..Len(reqs) : reqs[k].method = "IMPORT" /\ reqs[k].name[2] = t }
ClearOps == {"clear_sheet", "update_sheet", "delete_rows"}

\* C8: for a table with a sheet id whose file has n rows, every request
\* succeeding, set_sheet's requests are, in this order: one import named
\* TMP_<name> without folder; clear_sheet's requests on the target; move_rows's
\* fetch of the temporary sheet and exactly ceil(n/200) move requests from it
\* to the target, of 200 row ids each but the last (200 and 50 for n = 250);
\* one delete of the temporary sheet.
C8_ReplacementOrder ==
    \A t \in 1..Len(CONFIG) :
        (Replaced(t) /\ AllOk) =>
            LET n == Len(files[CONFIG[t].src])
                target == CONFIG[t].id
            IN  /\ Cardinality(ImportsOf(t)) = 1
                /\ \A k \in ImportsOf(t) :
                      LET tmp == reqs[k].sheet
                          moves == Ceil(n, 200)
                      IN  /\ reqs[k].name = << "TMP_", t >>
                          /\ reqs[k].folder = NoFolder
                          /\ \E c \in (k + 1)..Len(reqs) :
                                LET d == c + 2 + moves
                                IN  /\ d <= Len(reqs)
                                    /\ \A j \in (k + 1)..c :
                                          /\ reqs[j].by \in ClearOps
                                          /\ reqs[j].sheet = target
                                    /\ reqs[c + 1].by = "move_rows"
                                    /\ reqs[c + 1].method = "GET_SHEET"
                                    /\ reqs[c + 1].sheet = tmp
                                    /\ \A j \in 1..moves :
                                          /\ reqs[c + 1 + j].method = "MOVE_ROWS"
                                          /\ reqs[c + 1 + j].sheet = tmp
                                          /\ reqs[c + 1 + j].to = target
                                          /\ Len(reqs[c + 1 + j].items) = Min(200, n - 200 * (j - 1))
                                    /\ n = 250 =>
                                          /\ moves = 2
                                          /\ Len(reqs[c + 2].items) = 200
                                          /\ Len(reqs[c + 3].items) = 50
                                    /\ reqs[d].method = "DELETE_SHEET"
                                    /\ reqs[d].sheet = tmp
                                    /\ \A j \in 1..Len(reqs) :
                                          (reqs[j].method = "DELETE_SHEET" /\ reqs[j].sheet = tmp)
                                          => j = d

\* The workflow has completed for a table whose file takes two move chunks
\* and whose target took an update to clear.
C8_Witness ==
    \E t \in 1..Len(CONFIG) :
        /\ Replaced(t) /\ AllOk
        /\ Len(files[CONFIG[t].src]) > 200
        /\ Len(Issued("move_rows", "MOVE_ROWS")) >= 2
        /\ Len(Issued("update_sheet", "PUT_ROWS")) >= 1

\* C9: for a table without a sheet id set_sheet issues exactly one import,
\* into the target folder under the table's name; it records the id the
\* service assigned when the import succeeds (and none when it fails); no
\* other request is issued for the table: the next request, if any, is the
\* next table's import, and no request addresses the new sheet.
C9_NewTableImportsOnly ==
    \A t \in 1..Len(CONFIG) :
        (main.pc # "done" /\ conf_file[t] = NoId /\ t < main.k) =>
            /\ Cardinality(ImportsOf(t)) = 1
            /\ \A k \in ImportsOf(t) :
                  /\ reqs[k].name = << "", t >>
                  /\ reqs[k].folder = TargetFolder
                  /\ reqs[k].status = OK => CONFIG[t].id = reqs[k].sheet
                  /\ reqs[k].status # OK => CONFIG[t].id = NoId
                  /\ k < Len(reqs) =>
                        (reqs[k + 1].method = "IMPORT" /\ reqs[k + 1].name[2] = t + 1)
                  /\ \A j \in 1..Len(reqs) :
                        (j # k /\ reqs[k].status = OK) =>
                            (reqs[j].sheet # reqs[k].sheet /\ reqs[j].to # reqs[k].sheet)

\* A new table's sheet was created and its id recorded, and the run went on
\* to replace the sheet of a later table.
C9_Witness ==
    \E t \in 1..Len(CONFIG) :
        /\ main.pc # "done" /\ conf_file[t] = NoId /\ t < main.k
        /\ CONFIG[t].id # NoId
        /\ \E u \in (t + 1)..Len(CONFIG) : Replaced(u)

\* C10: the answer to a table's temporary import that carries a message other
\* than SUCCESS is the last request of the run: nothing is requested after
\* it, for that table or for a later one.
C10_RejectedImportHalts ==
    \A k \in 1..Len(reqs) :
        (/\ reqs[k].method = "IMPORT"
         /\ reqs[k].name[1] = "TMP_"
         /\ reqs[k].status = OK
         /\ reqs[k].message \notin {"SUCCESS", ""})
        => k = Len(reqs)

\* The run has ended on a rejected import with a table left unprocessed.
C10_Witness ==
    /\ main.pc = "done"
    /\ reqs # << >>
    /\ Last(reqs).method = "IMPORT"
    /\ Last(reqs).name[1] = "TMP_"
    /\ Last(reqs).message = "ERROR"
    /\ Last(reqs).name[2] < Len(CONFIG)

\* The temporary imports of the run that failed outright (a non-200 answer).
FailedTmpImports ==
    { k \in 1..Len(reqs) :
        reqs[k].method = "IMPORT" /\ reqs[k].name[1] = "TMP_" /\ reqs[k].status # OK }
\* The run was halted by an import's message (line 77).
HaltedByMessage ==
    \E k \in 1..Len(reqs) :
        reqs[k].method = "IMPORT" /\ reqs[k].status = OK /\ reqs[k].message = "ERROR"
\* The sheet of table t is as the run found it.
Untouched(t) ==
    /\ Exists(t)
    /\ sheets[t] = NewSheet(t, << "", t >>, TargetFolder, OldCells(Len(sheets[t].rows)))
    /\ \A k \in 1..Len(reqs) :
          (reqs[k].sheet = t \/ reqs[k].to = t) => reqs[k].method = "GET_SHEET"

\* C11: when the import of TMP_<name> for a table with a sheet id is answered
\* with a non-200 status, no request is issued for that table after it (the
\* next request, if any, is the next table's import), the table's target
\* sheet is as it was, and the run goes on: when it ends, without having
\* been halted by an import's message, every later table has had its import.
C11_FailedImportSkipsTable ==
    \A k \in FailedTmpImports :
        LET t == reqs[k].name[2]
        IN  /\ k < Len(reqs) =>
                  (reqs[k + 1].method = "IMPORT" /\ reqs[k + 1].name[2] = t + 1)
            /\ \A j \in 1..Len(reqs) : (reqs[j].sheet = CONFIG[t].id \/ reqs[j].to = CONFIG[t].id) => j < k
            /\ Untouched(CONFIG[t].id)
            /\ conf_file[t] = CONFIG[t].id
            /\ (main.pc = "done" /\ ~ HaltedByMessage) =>
                  \A u \in (t + 1)..Len(CONFIG) : ImportsOf(u) # {}

\* The import for the first table failed and the run has replaced the sheet
\* of the second.
C11_Witness ==
    /\ main.pc = "done"
    /\ \E k \in FailedTmpImports :
          /\ reqs[k].name[2] < Len(CONFIG)
          /\ \E j \in (k + 1)..Len(reqs) :
                reqs[j].method = "DELETE_SHEET" /\ reqs[j].status = OK

\* C12: clear_sheet on a sheet of n rows, 2 <= n <= 101, every request
\* succeeding, issues after its fetch (and update_sheet's) exactly one update
\* request, which files the n - 1 rows other than the first under the first
\* row, in order, and then exactly one delete request, of the first row's id
\* alone.
C12_ClearOneUpdateOneDelete ==
    (/\ Returned("clear_sheet")
     /\ AllOk
     /\ Len(reqs[1].items) \in 2..101)
    => LET ids == reqs[1].items
           n == Len(ids)
       IN  /\ Len(reqs) = 4
           /\ reqs[2].method = "GET_SHEET"
           /\ reqs[3].method = "PUT_ROWS"
           /\ reqs[3].sheet = main.call.sheet_id
           /\ reqs[3].items = [k \in 1..(n - 1) |-> [id |-> ids[k + 1], parentId |-> ids[1]]]
           /\ reqs[4].method = "DELETE_ROWS"
           /\ reqs[4].sheet = main.call.sheet_id
           /\ reqs[4].items = << ids[1] >>

\* clear_sheet has returned from a sheet of 101 rows: an update of 100.
C12_Witness ==
    /\ Returned("clear_sheet")
    /\ AllOk
    /\ Len(reqs[1].items) = 101
    /\ Len(reqs) = 4

\* The temporary imports that gave set_sheet a sheet to work with.
TmpImports ==
    { k \in 1..Len(reqs) :
        /\ reqs[k].method = "IMPORT" /\ reqs[k].name[1] = "TMP_"
        /\ reqs[k].status = OK /\ reqs[k].message # "ERROR" }
\* The requests of the clear and move steps that follow the import at k.
StepsOf(k) ==
    { j \in (k + 1)..Len(reqs) :
        /\ reqs[j].method \in {"GET_SHEET", "PUT_ROWS", "DELETE_ROWS", "MOVE_ROWS"}
        /\ reqs[j].sheet \in {CONFIG[reqs[k].name[2]].id, reqs[k].sheet} }
\* Table t's turn in the loop of set_sheet is over.
TableEnded(t) == t < main.k \/ main.pc \in {"returned", "done", "exited"}

\* C13 (as claimed): when a request of the clear step or of the move step
\* that follows a temporary import is answered with a non-200 status, no
\* delete-sheet request is issued for the temporary sheet, and the sheet
\* still exists when the table's workflow ends.
C13_TmpLeftBehind ==
    \A k \in TmpImports :
        (\E j \in StepsOf(k) : reqs[j].status # OK) =>
            /\ \A j \in 1..Len(reqs) :
                  ~ (reqs[j].method = "DELETE_SHEET" /\ reqs[j].sheet = reqs[k].sheet)
            /\ TableEnded(reqs[k].name[2]) => Exists(reqs[k].sheet)

\* The row mutations on the target sheet of the table imported at k.
TargetMutations(k) ==
    { j \in (k + 1)..Len(reqs) :
        LET target == CONFIG[reqs[k].name[2]].id
        IN  \/ reqs[j].method \in {"PUT_ROWS", "DELETE_ROWS"} /\ reqs[j].sheet = target
            \/ reqs[j].method = "MOVE_ROWS" /\ reqs[j].to = target }

\* C14: in every run, failing requests included, once a table's turn is over
\* and an update, delete or move-into request was issued against its target
\* sheet after its temporary import, a delete request for the temporary
\* sheet has been issued after it, before any request of a later table.
C14_MutatedTargetTmpDeleted ==
    \A k \in TmpImports :
        LET t == reqs[k].name[2]
        IN  (TargetMutations(k) # {} /\ TableEnded(t)) =>
                \E d \in (k + 1)..Len(reqs) :
                    /\ reqs[d].method = "DELETE_SHEET"
                    /\ reqs[d].sheet = reqs[k].sheet
                    /\ \A j \in TargetMutations(k) : j < d
                    /\ \A j \in 1..Len(reqs) :
                          (reqs[j].method = "IMPORT" /\ reqs[j].name[2] > t) => d < j

\* A table's turn is over after a request on its target failed, and the run
\* went on to the next table.
C14_Witness ==
    \E k \in TmpImports :
        /\ \E j \in TargetMutations(k) : reqs[j].status # OK
        /\ reqs[k].name[2] < main.k
        /\ ImportsOf(reqs[k].name[2] + 1) # {}

\* The public operations of the library.
Operations ==
    {"get_sheet", "add_rows", "update_sheet", "delete_rows", "delete_all_rows",
     "move_rows", "clear_sheet", "delete_sheet", "import_xlsx_sheet"}

\* C15 (as claimed): whatever statuses the service answers, a public
\* operation never ends the run of its caller: the caller is either still
\* waiting for it or has control back, with None or a value.
C15_OperationsReturn ==
    /\ main.pc # "exited"
    /\ \A op \in Operations :
          Returned(op) => ret.tag \in {"None", "sheet", "responses", "json"}

\* The service's sheets are those a client's run starts with, row for row.
SheetsAsAtFirst ==
    /\ DOMAIN sheets = {ApiSheet, OtherSheet, ThirdSheet}
    /\ \A t \in DOMAIN sheets :
          sheets[t] = NewSheet(t, << "", t >>, TargetFolder, OldCells(Len(sheets[t].rows)))

\* C16: when the fetch of add_rows or update_sheet answers no row (a sheet
\* of zero rows, or no sheet: a 404 or a failure), the call returns at once:
\* its fetch is its only request, whatever rows or updates and batch_size it
\* was given, and the sheets are unchanged.
C16_NoRowsNoRequests ==
    \A op \in {"add_rows", "update_sheet"} :
        (Called(op) /\ Fetched(op) # << >> /\ Fetched(op)[1].items = << >>) =>
            /\ Len(reqs) = 1
            /\ Issued(op, Mutation(op)) = << >>
            /\ stack = << >>
            /\ ret = None
            /\ SheetsAsAtFirst

\* add_rows was given rows for an existing sheet of zero rows.
C16_Witness ==
    /\ Returned("add_rows")
    /\ reqs[1].status = OK
    /\ reqs[1].items = << >>
    /\ Len(main.call.items) > main.call.batch_size

\* The rows a sheet of a client's run starts with.
RowsAtFirst(t, n) == NewSheet(t, << "", t >>, TargetFolder, OldCells(n)).rows

\* C17: move_rows(target, source), every request succeeding, leaves the
\* source without rows and the target with its former rows followed by the
\* source's former rows; every move request carries at most 200 row ids, all
\* of them from the source to the target; no other sheet changes.  When the
\* fetch of the source reports it absent, no move request is issued.
C17_MoveRowsMovesAll ==
    Called("move_rows") =>
        LET source == main.call.other
            target == main.call.sheet_id
            moves == Issued("move_rows", "MOVE_ROWS")
            n == Len(Input("move_rows"))
        IN  /\ \A k \in 1..Len(moves) :
                  /\ Len(moves[k].items) <= 200
                  /\ moves[k].sheet = source
                  /\ moves[k].to = target
            /\ (Fetched("move_rows") # << >> /\ Fetched("move_rows")[1].status # OK) =>
                  (moves = << >> /\ stack = << >> /\ SheetsAsAtFirst)
            /\ (stack = << >> /\ AllOk /\ Exists(target)) =>
                  /\ DOMAIN sheets = {ApiSheet, OtherSheet, ThirdSheet}
                  /\ sheets[source].rows = << >>
                  /\ sheets[target].rows = RowsAtFirst(target, MaxRem) \o RowsAtFirst(source, n)
                  /\ \A t \in DOMAIN sheets \ {source, target} :
                        sheets[t].rows = RowsAtFirst(t, MaxRem)

\* move_rows has moved a sheet of more than 200 rows in two requests.
C17_Witness ==
    /\ Returned("move_rows")
    /\ AllOk
    /\ Len(Issued("move_rows", "MOVE_ROWS")) = 2
    /\ Len(sheets[main.call.sheet_id].rows) > 200

\* The client's first call of delete_rows, on an existing sheet, sent every
\* chunk and had every one answered 200.
FirstDeleteOk ==
    /\ main.call.op = "delete_rows"
    /\ Exists(main.call.sheet_id)
    /\ LET c == Ceil(Len(main.call.items), DeleteBatch)
       IN  Len(reqs) >= c /\ \A k \in 1..c : reqs[k].status = OK

\* C18: delete_rows is idempotent.  On an existing sheet no chunk fails for
\* naming rows the sheet does not hold (only a service fault makes a chunk
\* fail), and without a fault the call returns one 200 response per chunk;
\* and a second call with the same ids, after a first that succeeded, changes
\* no sheet: the state after two calls is the state after one.
C18_DeleteRowsIdempotent ==
    /\ [](main.pc \in {"called", "called_again"} /\ main.call.op = "delete_rows"
            /\ Exists(main.call.sheet_id)
          => /\ \A k \in 1..Len(reqs) : reqs[k].status \in {OK, ServiceError}
             /\ (stack = << >> /\ faults = 0) =>
                   /\ ret.tag = "responses"
                   /\ Len(ret.responses) = Ceil(Len(main.call.items), DeleteBatch)
                   /\ \A k \in 1..Len(ret.responses) : ret.responses[k] = OK)
    /\ [][(main.pc = "called_again" /\ FirstDeleteOk) => sheets' = sheets]_vars

\* The second call has returned its responses; the first call had deleted
\* rows in two chunks, and named rows the sheet never held.
C18_Witness ==
    /\ Idle("called_again")
    /\ FirstDeleteOk
    /\ faults = 0
    /\ ret.tag = "responses"
    /\ Len(reqs) = 4
    /\ Len(main.call.items) > Len(sheets[main.call.sheet_id].rows) + DeleteBatch

\* The ids of the chunks before the k-th of a sequence of requests.
Before(sent, k) == UNION { Range(sent[j].items) : j \in 1..(k - 1) }
\* The rows of a sheet of m rows at first without those named in ids.
Without(t, m, ids) ==
    LET Kept(r) == r.id \notin ids IN SelectSeq(RowsAtFirst(t, m), Kept)

\* C19: when delete_rows or delete_all_rows, called on an existing sheet, has
\* returned after its k-th chunk failed, the sheet holds exactly the rows it
\* had at first less those of the chunks before the k-th (the rows of chunk k
\* and of later chunks are still there), the failed request is the last one
\* issued (nothing is undone or resent), and the call returns None, not the
\* responses collected.
C19_FailedDeleteLeavesPartial ==
    \A op \in {"delete_rows", "delete_all_rows"} :
        LET sent == Issued(op, "DELETE_ROWS")
            k == Len(sent)
            sid == main.call.sheet_id
        IN  (Returned(op) /\ Exists(sid) /\ k > 0 /\ Last(sent).status # OK) =>
                /\ \E m \in ApiSizes : sheets[sid].rows = Without(sid, m, Before(sent, k))
                /\ \A j \in 1..(k - 1) : Range(sent[j].items) \cap IdSet(sheets[sid].rows) = {}
                /\ Last(reqs) = Last(sent)
                /\ ret = None

\* delete_rows has returned after its second chunk failed: the first 100
\* rows are gone and the row of the second chunk is still in the sheet.
C19_Witness ==
    LET sent == Issued("delete_rows", "DELETE_ROWS")
    IN  /\ Returned("delete_rows")
        /\ Exists(main.call.sheet_id)
        /\ Len(sent) = 2
        /\ sent[2].status # OK
        /\ Range(sent[2].items) \subseteq IdSet(sheets[main.call.sheet_id].rows)
        /\ Len(sheets[main.call.sheet_id].rows) >= 100

\* C20: clear_sheet whose fetch reports the sheet absent (a 404, and equally
\* any other non-200) ends the whole run, having issued no request but the
\* fetch; clear_sheet whose fetch reports a sheet of zero rows returns to its
\* caller, having issued no request but the fetch.  The run ends in no other
\* case.
C20_ClearAbsentExitsEmptyReturns ==
    (main.pc \in {"called", "done", "exited"} /\ main.call.op = "clear_sheet" /\ reqs # << >>) =>
        /\ reqs[1].status # OK =>
              /\ main.pc = "exited"
              /\ stack = << >>
              /\ Len(reqs) = 1
              /\ SheetsAsAtFirst
        /\ (reqs[1].status = OK /\ reqs[1].items = << >>) =>
              /\ main.pc \in {"called", "done"}
              /\ stack = << >>
              /\ ret = None
              /\ Len(reqs) = 1
              /\ SheetsAsAtFirst
        /\ main.pc = "exited" => reqs[1].status # OK

\* clear_sheet has ended the run after its fetch was answered 500.
C20_Witness ==
    /\ main.pc = "exited"
    /\ main.call.op = "clear_sheet"
    /\ reqs[1].status = ServiceError
    /\ Exists(main.call.sheet_id)

\* The run of set_sheet is over: the configuration was written back, or the
\* process was ended by exit().
RunEnded == main.pc \in {"done", "exited"}

\* C21 (as claimed): however the run ends, the persisted configuration holds
\* the id of every sheet the run created for a table without one, and the id
\* of every table that had one is what it was.
C21_NewIdsPersisted ==
    RunEnded =>
        \A t \in 1..Len(CONFIG) :
            /\ \A k \in ImportsOf(t) :
                  /\ (reqs[k].name[1] = "" /\ reqs[k].status = OK) => conf_file[t] = reqs[k].sheet
                  /\ reqs[k].name[1] = "TMP_" => conf_file[t] = t
            /\ ImportsOf(t) = {} => conf_file[t] \in {NoId, t}

\* What deleting the m rows of sheet sid in chunks of 100 comes to when the
\* chunks sent were answered with statuses: the delete requests, and the rows
\* left (those of the chunks not answered 200).
DeleteOutcome(sid, m, statuses) ==
    LET ids == FirstIds(sid, m)
        Chunk(j) == Slice(ids, (j - 1) * 100, 100)
    IN  [requests |-> [j \in 1..Len(statuses) |-> [items |-> Chunk(j), status |-> statuses[j]]],
         rows |-> Without(sid, m, UNION { Range(Chunk(j)) :
                                            j \in { i \in 1..Len(statuses) : statuses[i] = OK } })]
\* What a call of op came to: its delete requests and the rows of the sheet.
Observed(op) ==
    LET sent == Issued(op, "DELETE_ROWS")
    IN  [requests |-> [j \in 1..Len(sent) |-> [items |-> sent[j].items, status |-> sent[j].status]],
         rows |-> sheets[main.call.sheet_id].rows]
\* The statuses of a call's delete requests, and whether they make a whole
\* run of the loop over m ids: all 200 and all chunks sent, or cut at the
\* first non-200.
DeleteStatuses(op) ==
    LET sent == Issued(op, "DELETE_ROWS") IN [j \in 1..Len(sent) |-> sent[j].status]
WholeRun(statuses, m) ==
    /\ \A j \in 1..(Len(statuses) - 1) : statuses[j] = OK
    /\ \/ Len(statuses) = Ceil(m, 100) /\ (m > 0 => Last(statuses) = OK)
       \/ Len(statuses) > 0 /\ Last(statuses) # OK
\* The call of op was about all the m rows of the sheet, in order: the sheet
\* delete_all_rows fetched, or the ids delete_rows was passed.
AllRowsOf(op, m) ==
    /\ Returned(op)
    /\ Exists(main.call.sheet_id)
    /\ sheets[main.call.sheet_id].nextRow = m + 1
    /\ IF op = "delete_all_rows"
       THEN Fetched(op)[1].status = OK /\ Len(Fetched(op)[1].items) = m
       ELSE main.call.items = FirstIds(main.call.sheet_id, m)

\* C22: delete_all_rows(sheet) does what delete_rows(sheet, ids of all the
\* rows of the sheet, in order) does: for every number of rows and every
\* pattern of failing requests the delete requests of both, and the rows both
\* leave, are the same function of the rows and the pattern; and
\* delete_all_rows issues no delete request when its fetch reports no sheet
\* or no rows.
C22_DeleteAllIsDeleteRows ==
    /\ \A op \in {"delete_rows", "delete_all_rows"} : \A m \in ApiSizes :
          AllRowsOf(op, m) =>
              /\ WholeRun(DeleteStatuses(op), m)
              /\ Observed(op) = DeleteOutcome(main.call.sheet_id, m, DeleteStatuses(op))
    /\ (Called("delete_all_rows") /\ reqs # << >> /\ reqs[1].items = << >>) =>
          (Len(reqs) = 1 /\ stack = << >>)

\* delete_all_rows has returned from a sheet of more than 100 rows after its
\* second delete request failed.
C22_Witness ==
    /\ Returned("delete_all_rows")
    /\ Len(Issued("delete_all_rows", "DELETE_ROWS")) = 2
    /\ Last(reqs).status # OK
    /\ Len(sheets[main.call.sheet_id].rows) > 0

\* The cells of the rows sheet id holds, none when there is no such sheet.
CellsIn(id) == IF Exists(id) THEN Range(Cells(sheets[id].rows)) ELSE {}

\* C23 (as claimed): in every run, failing requests included, once the turn
\* of a table whose temporary sheet was imported is over, every row of the
\* imported file is in the target sheet or in the temporary sheet, which
\* then still exists.
C23_NoImportedRowLost ==
    \A k \in TmpImports :
        LET t == reqs[k].name[2]
        IN  TableEnded(t) =>
                Range(files[CONFIG[t].src]) \subseteq CellsIn(CONFIG[t].id) \cup CellsIn(reqs[k].sheet)

\* C24: when clear_sheet's fetch answered a sheet of at least one row,
\* clear_sheet never issues more than one delete request, and by the time it
\* has returned it has issued exactly one, of the first row's id alone, as
\* its last request: also when a chunk of the update failed and when
\* update_sheet's own fetch reported no sheet or no rows.
C24_ClearAlwaysDeletesFirst ==
    (Called("clear_sheet") /\ reqs # << >> /\ reqs[1].status = OK /\ reqs[1].items # << >>) =>
        LET deletes == Issued("delete_rows", "DELETE_ROWS")
        IN  /\ Len(deletes) <= 1
            /\ \A j \in 1..Len(deletes) :
                  /\ deletes[j].items = << reqs[1].items[1] >>
                  /\ deletes[j].sheet = main.call.sheet_id
                  /\ deletes[j] = Last(reqs)
            /\ stack = << >> => Len(deletes) = 1

\* clear_sheet has returned after a request of update_sheet (its fetch or a
\* chunk) failed, the delete request issued all the same.
C24_Witness ==
    /\ Returned("clear_sheet")
    /\ \E j \in 1..Len(reqs) : reqs[j].by = "update_sheet" /\ reqs[j].status # OK
    /\ Last(reqs).method = "DELETE_ROWS"

====
